---- MODULE Spec2Model ----
(***************************************************************************)
(* Model of reV/handlers/transmission.py, class TransmissionFeatures: the  *)
(* feature catalog, the availability mask, the capacity allocator          *)
(* (connect, substation load spreading) and the cost model.                *)
(*                                                                         *)
(* Capacities are Python floats in the source.  They are modelled as exact *)
(* rationals <<numerator, denominator>> (denominator > 0, lowest terms),   *)
(* so that capacity / len(lines) and avail_cap / 2 are computed, not       *)
(* rounded to integers.  None (the PCALoadCen capacity, the no-connection  *)
(* cost) is the pair <<0, 0>>.                                             *)
(***************************************************************************)
EXTENDS Integers, Sequences, FiniteSets, TLC

VARIABLES
    avail_cap,        \* _features[gid]['avail_cap'] for the gids that have the key
    available_mask,   \* _available_mask, indexed by gid instead of list position
    cfg,              \* the tie-in and line costs given to __init__
    last,             \* the last public call: its arguments and its outcome
    pre_cap,          \* avail_cap as the last call found it
    pre_mask,         \* available_mask as the last call found it
    napplied,         \* number of connect(apply=True) calls made so far
    calls             \* the connect call each thread is in, and how far it has got

vars == <<avail_cap, available_mask, cfg, last, pre_cap, pre_mask, napplied, calls>>

----------------------------------------------------------------------------
(* Bounds of the model *)

\* connect(apply=True) calls per run of Spec
MaxApplied == 2

\* connect(apply=True) calls per run of SpecSigned
MaxSigned == 1

\* connect(apply=True) calls per instance in SpecMixed
MaxMixed == 1

----------------------------------------------------------------------------
(* Exact rational arithmetic standing for Python float arithmetic *)

None == <<0, 0>>

IsNone(x) == x[2] = 0

Abs(n) == IF n < 0 THEN -n ELSE n

RECURSIVE GCD(_, _)
GCD(a, b) == IF b = 0 THEN a ELSE GCD(b, a % b)

RatNorm(n, d) ==
    LET g == GCD(Abs(n), d)
    IN  <<n \div g, d \div g>>

Rat(n) == <<n, 1>>

RatAdd(a, b) == RatNorm(a[1] * b[2] + b[1] * a[2], a[2] * b[2])

RatSub(a, b) == RatNorm(a[1] * b[2] - b[1] * a[2], a[2] * b[2])

RatLt(a, b) == a[1] * b[2] < b[1] * a[2]

RatDivInt(a, k) == RatNorm(a[1], a[2] * k)

Zero == Rat(0)

----------------------------------------------------------------------------
(* The catalog: _features, as _features_from_table builds it.  Its shape   *)
(* (gids, kinds, substation members) never changes after construction.     *)

\* _feature_gid_list: the keys of _features
Catalog == 1 .. 10

\* the features whose substation lists TransLines of the catalog only, and the
\* features that are not substations
Gids == 1 .. 7

\* a gid that is no key of _features
UnknownGid == 11

\* every gid a caller may pass
AllGids == Catalog \cup {UnknownGid}

\* feature_dict['type'], the category column of the table
FeatureType(gid) ==
    CASE gid \in {1, 2, 3} -> "TransLine"
      [] gid \in {4, 8, 9, 10} -> "Substation"
      [] gid = 5 -> "LoadCen"
      [] gid = 6 -> "PCALoadCen"
      [] OTHER -> "Other"

\* feature_dict['lines'] of a Substation, the trans_gids column of the table:
\* substation 9 lists a load center, substation 10 a gid the table has no row for
FeatureLines(gid) ==
    CASE gid = 4 -> <<1, 2, 3>>
      [] gid = 8 -> <<1, 2>>
      [] gid = 9 -> <<1, 5>>
      [] gid = 10 -> <<2, UnknownGid>>
      [] OTHER -> << >>

\* the gids whose feature_dict has the key 'avail_cap'
HasAvailCap ==
    {gid \in Catalog : FeatureType(gid) \in {"TransLine", "LoadCen", "PCALoadCen"}}

\* ac_cap * available_capacity of the table rows: <<line 1, line 2, line 3, load center>>
InitCatalogs ==
    { <<10, 3, 0, 5>>, <<1, 2, 10, 0>>, <<6, 5, 5, 5>>, <<0, 0, 0, 0>> }

\* tables for the calls that address every gid; in the second the load center
\* has more capacity than any line, and lines 1 and 2 have 10 and 3
MixedCatalogs ==
    { <<6, 5, 5, 5>>, <<10, 3, 0, 12>> }

\* requested capacities (MW)
Capacities == {0, 5, 6, 10}

\* requested capacities of the calls that address every gid
MixedCapacities == {0, 5, 10}

\* connect does not check the sign of the capacity it is given
SignedCapacities == {-1, 0, 5, 6}

Distances == {10}

Multipliers == {1, 2}

\* defaults of __init__
line_tie_in_cost == 14000
line_cost == 3667
station_tine_in_cost == 0
center_tie_in_cost == 0
sink_tie_in_cost == 0

DefaultCfg ==
    [line_tie_in_cost |-> line_tie_in_cost, line_cost |-> line_cost,
     station_tie_in_cost |-> station_tine_in_cost,
     center_tie_in_cost |-> center_tie_in_cost,
     sink_tie_in_cost |-> sink_tie_in_cost]

\* a construction with every tie-in cost given explicitly
CustomCfg ==
    [line_tie_in_cost |-> 9000, line_cost |-> 100,
     station_tie_in_cost |-> 7000, center_tie_in_cost |-> 5000,
     sink_tie_in_cost |-> 3000]

----------------------------------------------------------------------------
(* Capacity queries *)

\* the loop of _substation_capacity: <<avail_cap, line_max>> after line_gids[i..]
RECURSIVE SubstationLoop(_, _, _, _, _)
SubstationLoop(cap, line_gids, i, acc, line_max) ==
    IF i > Len(line_gids)
    THEN <<acc, line_max>>
    ELSE LET gid == line_gids[i]
         IN  IF FeatureType(gid) = "TransLine"
             THEN LET line_cap == cap[gid]
                  IN  SubstationLoop(cap, line_gids, i + 1, RatAdd(acc, line_cap),
                                     IF RatLt(line_max, line_cap) THEN line_cap ELSE line_max)
             ELSE SubstationLoop(cap, line_gids, i + 1, acc, line_max)

\* mutant: the sum of the lines is not halved
_substation_capacity_no_half(cap, line_gids, line_limited) ==
    LET r == SubstationLoop(cap, line_gids, 1, Zero, Zero)
    IN  IF line_limited /\ RatLt(r[2], r[1]) THEN r[2] ELSE r[1]

\* lines 261-266, r = <<avail_cap, line_max>> as the loop leaves them
SubstationResult(r, line_limited) ==
    IF line_limited /\ RatLt(r[2], RatDivInt(r[1], 2)) THEN r[2] ELSE RatDivInt(r[1], 2)

_substation_capacity(cap, line_gids, line_limited) ==
    SubstationResult(SubstationLoop(cap, line_gids, 1, Zero, Zero), line_limited)

\* available_capacity raises KeyError: self._features[gid] for a gid that is no
\* key (line 286, or line 251 for a member of a substation), feature['avail_cap']
\* for a feature record without the key (line 290)
AvailableCapacityRaises(gid) ==
    \/ gid \notin Catalog
    \/ /\ FeatureType(gid) = "Substation"
       /\ \E i \in 1 .. Len(FeatureLines(gid)) : FeatureLines(gid)[i] \notin Catalog
    \/ FeatureType(gid) # "Substation" /\ gid \notin HasAvailCap

available_capacity(cap, gid, line_limited) ==
    IF FeatureType(gid) = "Substation"
    THEN _substation_capacity(cap, FeatureLines(gid), line_limited)
    ELSE cap[gid]

\* line 323: list.index raises ValueError for a gid that is not in the list
CheckAvailabilityRaises(gid) == gid \notin Catalog

check_availability(mask, gid) == mask[gid]

\* mutant: the flag is cleared whatever the capacity left
_update_availability_always(st, gid) == [st EXCEPT !.mask[gid] = FALSE]

\* mutant: the flags of the lines of a substation are brought up to date with it
_update_availability_with_lines(st, gid) ==
    [st EXCEPT !.mask = [g \in Catalog |->
        IF g = gid \/ g \in {FeatureLines(gid)[i] : i \in 1 .. Len(FeatureLines(gid))}
        THEN (IF ~AvailableCapacityRaises(g) /\ available_capacity(st.cap, g, FALSE) = Zero
              THEN FALSE ELSE st.mask[g])
        ELSE st.mask[g]]]

\* mutant: the mask is built anew instead of being updated in place
_update_availability_rebuilds(st, gid) ==
    IF available_capacity(st.cap, gid, FALSE) = Zero
    THEN [st EXCEPT !.mask = [g \in Catalog |-> g # gid]]
    ELSE st

\* st is the object's mutable state while a call runs:
\* [cap, mask, err], err = "ok" until an exception is raised
\* (a raised exception ends the call: later steps leave st as it is)
_update_availability(st, gid) ==
    IF available_capacity(st.cap, gid, FALSE) = Zero
    THEN [st EXCEPT !.mask[gid] = FALSE]
    ELSE st

----------------------------------------------------------------------------
(* Reservation *)

\* mutant: the capacity is subtracted without the test of lines 338-342
_connect_unchecked(st, gid, capacity) ==
    IF st.err # "ok" THEN st
    ELSE IF gid \notin DOMAIN st.cap THEN [st EXCEPT !.err = "KeyError"]
    ELSE IF IsNone(st.cap[gid]) THEN [st EXCEPT !.err = "TypeError"]
    ELSE [st EXCEPT !.cap[gid] = RatSub(@, capacity)]

\* mutant: the operands of the subtraction are swapped
_connect_swapped(st, gid, capacity) ==
    IF st.err # "ok" THEN st
    ELSE IF gid \notin DOMAIN st.cap THEN [st EXCEPT !.err = "KeyError"]
    ELSE IF IsNone(st.cap[gid]) THEN [st EXCEPT !.err = "TypeError"]
    ELSE IF RatLt(st.cap[gid], capacity) THEN [st EXCEPT !.err = "RuntimeError"]
    ELSE [st EXCEPT !.cap[gid] = RatSub(capacity, @)]

\* mutant: the capacity is added instead of subtracted
_connect_adds(st, gid, capacity) ==
    IF st.err # "ok" THEN st
    ELSE IF gid \notin DOMAIN st.cap THEN [st EXCEPT !.err = "KeyError"]
    ELSE IF IsNone(st.cap[gid]) THEN [st EXCEPT !.err = "TypeError"]
    ELSE IF RatLt(st.cap[gid], capacity) THEN [st EXCEPT !.err = "RuntimeError"]
    ELSE [st EXCEPT !.cap[gid] = RatAdd(@, capacity)]

_connect(st, gid, capacity) ==
    IF st.err # "ok" THEN st
    ELSE IF gid \notin DOMAIN st.cap THEN [st EXCEPT !.err = "KeyError"]
    ELSE IF IsNone(st.cap[gid]) THEN [st EXCEPT !.err = "TypeError"]
    ELSE IF RatLt(st.cap[gid], capacity) THEN [st EXCEPT !.err = "RuntimeError"]
    ELSE [st EXCEPT !.cap[gid] = RatSub(@, capacity)]

\* mutant: the capacity given to a filled line is not taken off the capacity needed
RECURSIVE FillLoop_keeps_capacity(_, _, _, _, _, _)
FillLoop_keeps_capacity(st, line_gids, line_caps, share, capacity, pos) ==
    IF pos > Len(line_gids) \/ st.err # "ok"
    THEN [st |-> st, capacity |-> capacity]
    ELSE IF RatLt(line_caps[pos], share)
         THEN FillLoop_keeps_capacity(_connect(st, line_gids[pos], line_caps[pos]),
                                      line_gids, line_caps, share, capacity, pos + 1)
         ELSE FillLoop_keeps_capacity(st, line_gids, line_caps, share, capacity, pos + 1)

\* the for loop of _fill_lines over np.where(line_caps < apply_cap)[0]
RECURSIVE FillLoop(_, _, _, _, _, _)
FillLoop(st, line_gids, line_caps, share, capacity, pos) ==
    IF pos > Len(line_gids) \/ st.err # "ok"
    THEN [st |-> st, capacity |-> capacity]
    ELSE IF RatLt(line_caps[pos], share)
         THEN FillLoop(_connect(st, line_gids[pos], line_caps[pos]), line_gids, line_caps,
                       share, RatSub(capacity, line_caps[pos]), pos + 1)
         ELSE FillLoop(st, line_gids, line_caps, share, capacity, pos + 1)

\* numpy boolean indexing: the entries of seq at the positions where keep is TRUE
RECURSIVE Compress(_, _, _)
Compress(seq, keep, i) ==
    IF i > Len(seq) THEN << >>
    ELSE (IF keep[i] THEN <<seq[i]>> ELSE << >>) \o Compress(seq, keep, i + 1)

\* line 377: what _fill_lines returns, r the outcome of its for loop, keep = ~mask
FillReturn(r, line_gids, line_caps, keep) ==
    [st |-> r.st, line_gids |-> Compress(line_gids, keep, 1),
     line_caps |-> Compress(line_caps, keep, 1), capacity |-> r.capacity]

\* mutant: a line whose capacity equals the equal share is taken out of play
FillBelow_drops_equal(st, line_gids, line_caps, capacity, apply_cap) ==
    FillReturn(FillLoop(st, line_gids, line_caps, apply_cap, capacity, 1),
               line_gids, line_caps,
               [i \in 1 .. Len(line_gids) |-> RatLt(apply_cap, line_caps[i])])

\* lines 370-377, apply_cap the equal share of line 369
FillBelow(st, line_gids, line_caps, capacity, apply_cap) ==
    FillReturn(FillLoop(st, line_gids, line_caps, apply_cap, capacity, 1),
               line_gids, line_caps,
               [i \in 1 .. Len(line_gids) |-> ~RatLt(line_caps[i], apply_cap)])

_fill_lines(st, line_gids, line_caps, capacity) ==
    IF Len(line_gids) = 0
    THEN [st |-> [st EXCEPT !.err = "ZeroDivisionError"], line_gids |-> line_gids,
          line_caps |-> line_caps, capacity |-> capacity]
    ELSE FillBelow(st, line_gids, line_caps, capacity,
                   RatDivInt(capacity, Len(line_gids)))

\* the final for loop of _spread_substation_load
RECURSIVE ConnectEach(_, _, _, _)
ConnectEach(st, lines, apply_cap, i) ==
    IF i > Len(lines) THEN st
    ELSE ConnectEach(_connect(st, lines[i], apply_cap), lines, apply_cap, i + 1)

RECURSIVE _spread_substation_load(_, _, _, _)

\* mutant: one fill pass only, the equal share follows it at once
SpreadAfterFill_single_pass(r, line_gids) ==
    IF r.st.err # "ok" THEN r.st
    ELSE ConnectEach(r.st, r.line_gids, RatDivInt(r.capacity, Len(r.line_gids)), 1)

\* lines 395-402, r what _fill_lines returned for line_gids
SpreadAfterFill(r, line_gids) ==
    IF r.st.err # "ok" THEN r.st
    ELSE IF Len(r.line_gids) < Len(line_gids)
    THEN _spread_substation_load(r.st, r.line_gids, r.line_caps, r.capacity)
    ELSE ConnectEach(r.st, r.line_gids, RatDivInt(r.capacity, Len(r.line_gids)), 1)

_spread_substation_load(st, line_gids, line_caps, capacity) ==
    SpreadAfterFill(_fill_lines(st, line_gids, line_caps, capacity), line_gids)

RECURSIVE SpreadPasses(_, _, _, _, _)

\* mutant: a second pass is made although the first took no line out of play
SpreadLinesAfterFill_repeats(r, line_gids, passes) ==
    IF r.st.err = "ok" /\ (Len(r.line_gids) < Len(line_gids) \/ Len(passes) = 1)
    THEN SpreadPasses(r.st, r.line_gids, r.line_caps, r.capacity, passes)
    ELSE [st |-> r.st, line_gids |-> r.line_gids, line_caps |-> r.line_caps,
          capacity |-> r.capacity, passes |-> passes]

\* lines 395-398, r what _fill_lines returned for line_gids
SpreadLinesAfterFill(r, line_gids, passes) ==
    IF r.st.err = "ok" /\ Len(r.line_gids) < Len(line_gids)
    THEN SpreadPasses(r.st, r.line_gids, r.line_caps, r.capacity, passes)
    ELSE [st |-> r.st, line_gids |-> r.line_gids, line_caps |-> r.line_caps,
          capacity |-> r.capacity, passes |-> passes]

\* one turn of the while loop of lines 392-398; passes lists len(line_gids) of
\* every call of _fill_lines made so far
SpreadPasses(st, line_gids, line_caps, capacity, passes) ==
    SpreadLinesAfterFill(_fill_lines(st, line_gids, line_caps, capacity), line_gids,
                         Append(passes, Len(line_gids)))

\* the while loop of lines 392-398: the lines still in play when it ends, the
\* capacity left for them, and the passes it made
SpreadLines(st, line_gids, line_caps, capacity) ==
    SpreadPasses(st, line_gids, line_caps, capacity, << >>)

\* mutant: the first position holding the least value
ArgMin(line_caps) ==
    CHOOSE i \in 1 .. Len(line_caps) :
        /\ \A j \in 1 .. Len(line_caps) : ~RatLt(line_caps[j], line_caps[i])
        /\ \A j \in 1 .. (i - 1) : RatLt(line_caps[i], line_caps[j])

\* np.argmax: the first position holding the greatest value
ArgMax(line_caps) ==
    CHOOSE i \in 1 .. Len(line_caps) :
        /\ \A j \in 1 .. Len(line_caps) : ~RatLt(line_caps[i], line_caps[j])
        /\ \A j \in 1 .. (i - 1) : RatLt(line_caps[j], line_caps[i])

_connect_to_substation(st, line_gids, capacity, line_limited) ==
    IF \E i \in 1 .. Len(line_gids) : line_gids[i] \notin DOMAIN st.cap
    THEN [st EXCEPT !.err = "KeyError"]
    ELSE LET line_caps == [i \in 1 .. Len(line_gids) |-> st.cap[line_gids[i]]]
         IN  IF line_limited
             THEN IF Len(line_gids) = 0
                  THEN [st EXCEPT !.err = "ValueError"]
                  ELSE _connect(st, line_gids[ArgMax(line_caps)], capacity)
             ELSE LET non_zero == [i \in 1 .. Len(line_gids) |-> line_caps[i] # Zero]
                  IN  _spread_substation_load(st, Compress(line_gids, non_zero, 1),
                                              Compress(line_caps, non_zero, 1), capacity)

\* mutant: a capacity of None counts as no capacity at all
Exceeds_none_is_zero(capacity, avail) ==
    IF IsNone(avail) THEN RatLt(Zero, capacity) ELSE RatLt(avail, capacity)

\* mutant: the comparison of capacity with avail_cap is inverted
Exceeds_inverted(capacity, avail) == ~IsNone(avail) /\ RatLt(capacity, avail)

\* line 454: avail_cap is not None and capacity > avail_cap
Exceeds(capacity, avail) == ~IsNone(avail) /\ RatLt(avail, capacity)

\* connect, lines 452-457 and 470-471: "True", "False" or the exception raised
connect_feasible(cap, mask, gid, capacity, line_limited) ==
    IF CheckAvailabilityRaises(gid)
    THEN "ValueError"
    ELSE IF check_availability(mask, gid)
    THEN IF AvailableCapacityRaises(gid)
         THEN "KeyError"
         ELSE IF Exceeds(capacity, available_capacity(cap, gid, line_limited))
              THEN "False" ELSE "True"
    ELSE "False"

\* line 469, reached unless the reservation raised
UpdateUnlessRaised(st1, gid) ==
    IF st1.err = "ok" THEN _update_availability(st1, gid) ELSE st1

\* mutant: the LoadCen branch is missing
connect_apply_no_loadcen(st, gid, capacity, line_limited) ==
    UpdateUnlessRaised(
        CASE FeatureType(gid) = "TransLine" -> _connect(st, gid, capacity)
          [] FeatureType(gid) = "Substation" ->
                 _connect_to_substation(st, FeatureLines(gid), capacity, line_limited)
          [] OTHER -> st,
        gid)

\* connect, lines 458-467: the branch on the feature's type
connect_reserve(st, gid, capacity, line_limited) ==
    CASE FeatureType(gid) = "TransLine" -> _connect(st, gid, capacity)
      [] FeatureType(gid) = "Substation" ->
             _connect_to_substation(st, FeatureLines(gid), capacity, line_limited)
      [] FeatureType(gid) = "LoadCen" -> _connect(st, gid, capacity)
      [] OTHER -> st

\* connect, lines 458-469: the reservation of a feasible connect(apply=True)
connect_apply(st, gid, capacity, line_limited) ==
    UpdateUnlessRaised(connect_reserve(st, gid, capacity, line_limited), gid)

\* mutant: the reservation is made whatever apply says
ConnectOutcome_ignores_apply(st, connected, gid, capacity, apply, line_limited) ==
    IF connected = "True"
    THEN [st |-> connect_apply(st, gid, capacity, line_limited),
          ret |-> IF connect_apply(st, gid, capacity, line_limited).err = "ok" THEN "True"
                  ELSE connect_apply(st, gid, capacity, line_limited).err]
    ELSE [st |-> st, ret |-> connected]

\* what connect returns after its apply branch left st2, or the exception it raised
Returned(st2) == [st |-> st2, ret |-> IF st2.err = "ok" THEN "True" ELSE st2.err]

\* lines 458-473, connected the decision of lines 452-457
ConnectOutcome(st, connected, gid, capacity, apply, line_limited) ==
    IF connected = "True" /\ apply
    THEN Returned(connect_apply(st, gid, capacity, line_limited))
    ELSE [st |-> st, ret |-> connected]

\* connect: [st |-> the state it leaves, ret |-> "True", "False" or the exception]
connect(cap, mask, gid, capacity, apply, line_limited) ==
    ConnectOutcome([cap |-> cap, mask |-> mask, err |-> "ok"],
                   connect_feasible(cap, mask, gid, capacity, line_limited),
                   gid, capacity, apply, line_limited)

----------------------------------------------------------------------------
(* Cost model *)

\* mutant: the multiplier is applied to the tie-in cost too
_calc_cost_precedence(distance, lcost, tie_in_cost, transmission_multiplier) ==
    (distance * lcost + tie_in_cost) * transmission_multiplier

_calc_cost(distance, lcost, tie_in_cost, transmission_multiplier) ==
    distance * lcost * transmission_multiplier + tie_in_cost

TieInCost(c, feature_type) ==
    CASE feature_type = "TransLine" -> c.line_tie_in_cost
      [] feature_type = "Substation" -> c.station_tie_in_cost
      [] feature_type = "LoadCen" -> c.center_tie_in_cost
      [] feature_type = "PCALoadCen" -> c.sink_tie_in_cost
      [] OTHER -> 0

\* lines 520-524: the value computed, or None when connect(apply=False) says no;
\* r is what that connect returned
CostGated(r, value) ==
    CASE r.ret = "True" -> [st |-> r.st, ret |-> "value", cost |-> value]
      [] r.ret = "False" -> [st |-> r.st, ret |-> "None", cost |-> 0]
      [] OTHER -> [st |-> r.st, ret |-> r.ret, cost |-> 0]

\* mutant: "if capacity:" instead of "if capacity is not None:"
cost_truthy_capacity(cap, mask, c, gid, distance, transmission_multiplier, capacity, line_limited) ==
    IF gid \notin Catalog
    THEN [st |-> [cap |-> cap, mask |-> mask, err |-> "ok"], ret |-> "KeyError", cost |-> 0]
    ELSE IF ~IsNone(capacity) /\ capacity # Zero
    THEN CostGated(connect(cap, mask, gid, capacity, FALSE, line_limited),
                   _calc_cost(distance, c.line_cost, TieInCost(c, FeatureType(gid)),
                              transmission_multiplier))
    ELSE [st |-> [cap |-> cap, mask |-> mask, err |-> "ok"], ret |-> "value",
          cost |-> _calc_cost(distance, c.line_cost, TieInCost(c, FeatureType(gid)),
                              transmission_multiplier)]

\* mutant: the feasibility gate runs even when no capacity is given
cost_gates_always(cap, mask, c, gid, distance, transmission_multiplier, capacity, line_limited) ==
    IF gid \notin Catalog
    THEN [st |-> [cap |-> cap, mask |-> mask, err |-> "ok"], ret |-> "KeyError", cost |-> 0]
    ELSE CostGated(connect(cap, mask, gid, IF IsNone(capacity) THEN Zero ELSE capacity,
                           FALSE, line_limited),
                   _calc_cost(distance, c.line_cost, TieInCost(c, FeatureType(gid)),
                              transmission_multiplier))

\* cost: [st |-> the state it leaves, ret |-> "value", "None" or the exception,
\*        cost |-> the number returned]; line 499 raises KeyError for an unknown gid
cost(cap, mask, c, gid, distance, transmission_multiplier, capacity, line_limited) ==
    IF gid \notin Catalog
    THEN [st |-> [cap |-> cap, mask |-> mask, err |-> "ok"], ret |-> "KeyError", cost |-> 0]
    ELSE IF ~IsNone(capacity)
    THEN CostGated(connect(cap, mask, gid, capacity, FALSE, line_limited),
                   _calc_cost(distance, c.line_cost, TieInCost(c, FeatureType(gid)),
                              transmission_multiplier))
    ELSE [st |-> [cap |-> cap, mask |-> mask, err |-> "ok"], ret |-> "value",
          cost |-> _calc_cost(distance, c.line_cost, TieInCost(c, FeatureType(gid)),
                              transmission_multiplier)]

\* a row of the table feature_costs iterates over
Row(gid, tm) == [trans_line_gid |-> gid, dist_mi |-> 10, transmission_multiplier |-> tm]

\* tables of candidate connections given to feature_costs
TransTables ==
    { <<Row(1, 1), Row(2, 2), Row(3, 1), Row(4, 1), Row(5, 2), Row(6, 1)>>,
      <<Row(8, 1), Row(9, 1), Row(4, 2)>>,
      <<Row(1, 1), Row(7, 1), Row(2, 1)>> }

RECURSIVE CostsLoop(_, _, _, _, _, _, _)

\* costs.append(...) of line 577, r what feature.cost returned for rows[i];
\* an exception ends the loop and is raised again (lines 581-584)
CostsAppend(r, c, rows, i, capacity, line_limited, costs) ==
    CASE r.ret = "value" ->
             CostsLoop(r.st, c, rows, i + 1, capacity, line_limited, Append(costs, Rat(r.cost)))
      [] r.ret = "None" ->
             CostsLoop(r.st, c, rows, i + 1, capacity, line_limited, Append(costs, None))
      [] OTHER -> [st |-> r.st, ret |-> r.ret, costs |-> costs]

\* the for loop of lines 575-580 from row i on
CostsLoop(st, c, rows, i, capacity, line_limited, costs) ==
    IF i > Len(rows)
    THEN [st |-> st, ret |-> "value", costs |-> costs]
    ELSE CostsAppend(cost(st.cap, st.mask, c, rows[i].trans_line_gid, rows[i].dist_mi,
                          rows[i].transmission_multiplier, capacity, line_limited),
                     c, rows, i, capacity, line_limited, costs)

\* feature_costs on the instance it has built, feature:
\* [st |-> the state it leaves feature in, ret |-> "value" or the exception,
\*  costs |-> the float array returned, None standing for the nan of a cost of None]
feature_costs(feature, c, rows, capacity, line_limited) ==
    CostsLoop(feature, c, rows, 1, capacity, line_limited, << >>)

----------------------------------------------------------------------------
(* The state machine *)

NoCall ==
    [op |-> "init", gid |-> 0, capacity |-> None, apply |-> FALSE, line_limited |-> FALSE,
     distance |-> 0, multiplier |-> 0, ret |-> "", cost |-> 0, costs |-> << >>, avail |-> None]

\* _features_from_table: the avail_cap fields of the features built from table cat
FeaturesFromTable(cat) ==
    [gid \in HasAvailCap |->
        CASE FeatureType(gid) = "TransLine" -> Rat(cat[gid])
          [] FeatureType(gid) = "LoadCen" -> Rat(cat[4])
          [] OTHER -> None]

\* the threads that call into one catalog
Threads == {1, 2}

\* a thread that is in no call
Idle ==
    [pc |-> "idle", gid |-> 0, capacity |-> None, apply |-> FALSE, line_limited |-> FALSE,
     avail |-> None, stale |-> FALSE, at_return |-> None, ret |-> ""]

\* __init__: the feature dictionary and a mask of all True
Init ==
    /\ \E cat \in InitCatalogs : avail_cap = FeaturesFromTable(cat)
    /\ available_mask = [gid \in Catalog |-> TRUE]
    /\ cfg \in {DefaultCfg, CustomCfg}
    /\ cfg = CustomCfg => avail_cap[1] = Rat(10)
    /\ last = NoCall
    /\ pre_cap = avail_cap
    /\ pre_mask = available_mask
    /\ napplied = 0
    /\ calls = [t \in Threads |-> Idle]

\* line_limited is a keyword of the substation code only
LineLimitedArgs(gid) == IF FeatureType(gid) = "Substation" THEN BOOLEAN ELSE {FALSE}

\* the object after a call that left r.st, and the record of the call
Called(r, call) ==
    /\ avail_cap' = r.st.cap
    /\ available_mask' = r.st.mask
    /\ last' = [call EXCEPT !.ret = r.ret]
    /\ pre_cap' = avail_cap
    /\ pre_mask' = available_mask
    /\ UNCHANGED calls

ConnectCall(gids, requests, bound) ==
    \E gid \in gids, c \in requests, apply \in BOOLEAN :
    \E line_limited \in LineLimitedArgs(gid) :
        /\ apply => napplied < bound
        /\ Called(connect(avail_cap, available_mask, gid, Rat(c), apply, line_limited),
                  [op |-> "connect", gid |-> gid, capacity |-> Rat(c),
                   apply |-> apply, line_limited |-> line_limited,
                   distance |-> 0, multiplier |-> 0, ret |-> "", cost |-> 0, costs |-> << >>, avail |-> None])
        /\ napplied' = IF apply THEN napplied + 1 ELSE napplied
        /\ UNCHANGED cfg

Connect == ConnectCall(Gids, Capacities, MaxApplied)

ConnectSigned == ConnectCall(Gids, SignedCapacities, MaxSigned)

\* the object after a cost call that returned r.cost (or None, or raised)
CostCalled(r, call) == Called(r, [call EXCEPT !.cost = r.cost])

CostCall(gids, requests) ==
    \E gid \in gids, d \in Distances, m \in Multipliers :
    \E capacity \in {None} \cup {Rat(c) : c \in requests} :
    \E line_limited \in LineLimitedArgs(gid) :
        /\ CostCalled(cost(avail_cap, available_mask, cfg, gid, d, m, capacity, line_limited),
                      [op |-> "cost", gid |-> gid, capacity |-> capacity,
                       apply |-> FALSE, line_limited |-> line_limited,
                       distance |-> d, multiplier |-> m, ret |-> "", cost |-> 0, costs |-> << >>, avail |-> None])
        /\ UNCHANGED <<cfg, napplied>>

Cost == CostCall(Gids, Capacities)

Next == Connect \/ Cost

Spec == Init /\ [][Next]_vars

\* the same catalog driven by connect calls with capacities of either sign
NextSigned == ConnectSigned

SpecSigned == Init /\ [][NextSigned]_vars

\* __init__ on the tables of MixedCatalogs
InitMixed ==
    /\ \E cat \in MixedCatalogs : avail_cap = FeaturesFromTable(cat)
    /\ available_mask = [gid \in Catalog |-> TRUE]
    /\ cfg = DefaultCfg
    /\ last = NoCall
    /\ pre_cap = avail_cap
    /\ pre_mask = available_mask
    /\ napplied = 0
    /\ calls = [t \in Threads |-> Idle]

ConnectMixed == ConnectCall(AllGids, MixedCapacities, MaxMixed)

CostMixed == CostCall(AllGids, {5})

\* a call that only reads: the object stays as it is
Queried(call) ==
    /\ last' = call
    /\ pre_cap' = avail_cap
    /\ pre_mask' = available_mask
    /\ UNCHANGED <<avail_cap, available_mask, cfg, napplied, calls>>

\* available_capacity(gid) or available_capacity(gid, line_limited=True)
AvailableCapacity ==
    \E gid \in AllGids : \E line_limited \in LineLimitedArgs(gid) :
        Queried([NoCall EXCEPT
                     !.op = "available_capacity", !.gid = gid,
                     !.line_limited = line_limited,
                     !.ret = IF AvailableCapacityRaises(gid) THEN "KeyError" ELSE "value",
                     !.avail = IF AvailableCapacityRaises(gid) THEN None
                               ELSE available_capacity(avail_cap, gid, line_limited)])

\* check_availability(gid)
CheckAvailability ==
    \E gid \in AllGids :
        Queried([NoCall EXCEPT
                     !.op = "check_availability", !.gid = gid,
                     !.ret = IF CheckAvailabilityRaises(gid) THEN "ValueError"
                             ELSE IF check_availability(available_mask, gid) THEN "True"
                             ELSE "False"])

\* the instance the classmethod builds (line 567), as the batch r leaves it
BatchCalled(feature, r, call) ==
    /\ avail_cap' = r.st.cap
    /\ available_mask' = r.st.mask
    /\ last' = [call EXCEPT !.ret = r.ret, !.costs = r.costs]
    /\ pre_cap' = feature.cap
    /\ pre_mask' = feature.mask
    /\ napplied' = 0
    /\ UNCHANGED <<cfg, calls>>

\* feature_costs(trans_table, capacity=..., line_limited=...): from here on the
\* object followed is the instance the batch built and priced
FeatureCostsOn(feature) ==
    \E rows \in TransTables, line_limited \in BOOLEAN :
    \E capacity \in {None, Rat(5)} :
        BatchCalled(feature, feature_costs(feature, cfg, rows, capacity, line_limited),
                    [NoCall EXCEPT !.op = "feature_costs", !.capacity = capacity,
                                   !.line_limited = line_limited])

FeatureCosts ==
    \E cat \in MixedCatalogs :
        FeatureCostsOn([cap |-> FeaturesFromTable(cat),
                        mask |-> [gid \in Catalog |-> TRUE], err |-> "ok"])

NextMixed ==
    \/ ConnectMixed
    \/ CostMixed
    \/ AvailableCapacity
    \/ CheckAvailability
    \/ FeatureCosts

\* a catalog with substations that list a load center and an unknown gid,
\* driven by every public call, unknown gids included
SpecMixed == InitMixed /\ [][NextMixed]_vars

----------------------------------------------------------------------------
(* Calls that run side by side *)

\* tables, gids and capacities of the calls that threads make side by side:
\* lines 1 and 2 and substation 4, which lists both
StepCatalogs == { <<10, 3, 0, 5>>, <<6, 5, 5, 5>> }

StepGids == {1, 2, 4}

StepCapacities == {5, 6}

InitSteps ==
    /\ \E cat \in StepCatalogs : avail_cap = FeaturesFromTable(cat)
    /\ available_mask = [gid \in Catalog |-> TRUE]
    /\ cfg = DefaultCfg
    /\ last = NoCall
    /\ pre_cap = avail_cap
    /\ pre_mask = available_mask
    /\ napplied = 0
    /\ calls = [t \in Threads |-> Idle]

\* thread t goes on in its call; no call has returned to the single caller of Spec
Stepped(t, call) ==
    /\ calls' = [calls EXCEPT ![t] = call]
    /\ UNCHANGED <<cfg, last, pre_cap, pre_mask, napplied>>

\* the call of thread t returns ret
ReturnStep(t, ret) ==
    Stepped(t, [calls[t] EXCEPT
                    !.pc = "done", !.ret = ret,
                    !.at_return = available_capacity(avail_cap, calls[t].gid,
                                                     calls[t].line_limited)])

\* thread t calls connect(gid, capacity, apply=apply, line_limited=line_limited)
Begin(t) ==
    /\ calls[t].pc = "idle"
    /\ \E gid \in StepGids, c \in StepCapacities, apply \in BOOLEAN :
       \E line_limited \in LineLimitedArgs(gid) :
           Stepped(t, [Idle EXCEPT !.pc = "check", !.gid = gid, !.capacity = Rat(c),
                                   !.apply = apply, !.line_limited = line_limited])
    /\ UNCHANGED <<avail_cap, available_mask>>

\* line 452: if self.check_availability(gid), else line 471
CheckStep(t) ==
    /\ calls[t].pc = "check"
    /\ IF check_availability(available_mask, calls[t].gid)
       THEN Stepped(t, [calls[t] EXCEPT !.pc = "read"])
       ELSE ReturnStep(t, "False")
    /\ UNCHANGED <<avail_cap, available_mask>>

\* line 453: avail_cap = self.available_capacity(gid, **kwargs)
ReadStep(t) ==
    /\ calls[t].pc = "read"
    /\ Stepped(t, [calls[t] EXCEPT
                       !.pc = "compare",
                       !.avail = available_capacity(avail_cap, calls[t].gid,
                                                    calls[t].line_limited)])
    /\ UNCHANGED <<avail_cap, available_mask>>

\* lines 454-458: the comparison with the capacity that was read, and the
\* return of a call that does not reserve
CompareStep(t) ==
    /\ calls[t].pc = "compare"
    /\ IF Exceeds(calls[t].capacity, calls[t].avail)
       THEN ReturnStep(t, "False")
       ELSE IF calls[t].apply
            THEN Stepped(t, [calls[t] EXCEPT !.pc = "reserve"])
            ELSE ReturnStep(t, "True")
    /\ UNCHANGED <<avail_cap, available_mask>>

\* the calls after thread t has left the object as st1: its own call goes on to
\* line 469 or ends in the exception raised; a thread that has read a capacity
\* and not yet compared it now holds a value that is out of date
AfterReserve(t, st1) ==
    [u \in Threads |->
        IF u = t
        THEN (IF st1.err = "ok" THEN [calls[t] EXCEPT !.pc = "update"]
              ELSE [calls[t] EXCEPT !.pc = "done", !.ret = st1.err])
        ELSE IF calls[u].pc = "compare" /\ st1.cap # avail_cap
             THEN [calls[u] EXCEPT !.stale = TRUE]
             ELSE calls[u]]

\* thread t has left the object as st1
Reserved1(t, st1) ==
    /\ avail_cap' = st1.cap
    /\ calls' = AfterReserve(t, st1)

\* lines 459-467: _connect or _connect_to_substation, in one step
ReserveStep(t) ==
    /\ calls[t].pc = "reserve"
    /\ Reserved1(t, connect_reserve([cap |-> avail_cap, mask |-> available_mask, err |-> "ok"],
                                    calls[t].gid, calls[t].capacity, calls[t].line_limited))
    /\ UNCHANGED <<available_mask, cfg, last, pre_cap, pre_mask, napplied>>

\* line 469: self._update_availability(gid), and the return of line 473
UpdateStep(t) ==
    /\ calls[t].pc = "update"
    /\ available_mask' = _update_availability([cap |-> avail_cap, mask |-> available_mask,
                                               err |-> "ok"], calls[t].gid).mask
    /\ ReturnStep(t, "True")
    /\ UNCHANGED avail_cap

NextSteps ==
    \E t \in Threads :
        \/ Begin(t)
        \/ CheckStep(t)
        \/ ReadStep(t)
        \/ CompareStep(t)
        \/ ReserveStep(t)
        \/ UpdateStep(t)

\* two threads, each making one connect call on the same object with no lock:
\* a thread switch can fall between any two steps of connect
SpecSteps == InitSteps /\ [][NextSteps]_vars

----------------------------------------------------------------------------
(* Properties *)

\* the features whose capacity is a stored number
Stored == {gid \in Gids : FeatureType(gid) \in {"TransLine", "LoadCen"}}

Substations == {gid \in Gids : FeatureType(gid) = "Substation"}

\* the last call was connect(last.gid, last.capacity, apply=True) and returned True
Reserved == last.op = "connect" /\ last.apply /\ last.ret = "True"

\* C1: after any sequence of connect calls on a catalog built with non-negative
\* capacities, no TransLine or LoadCen has a negative stored capacity and no
\* Substation has a negative derived capacity (in either substation mode).
C1_CapacityNeverNegative ==
    /\ \A gid \in Stored : ~RatLt(avail_cap[gid], Zero)
    /\ \A gid \in Substations : \A line_limited \in BOOLEAN :
           ~RatLt(available_capacity(avail_cap, gid, line_limited), Zero)

\* a reservation has just drained a feature that had capacity
C1_Witness ==
    /\ Reserved
    /\ \E gid \in Stored : pre_cap[gid] # Zero /\ avail_cap[gid] = Zero

\* C2: connect(gid, c, apply=True) returns False and changes no capacity and no
\* flag when the feature's flag is false, or when its available capacity is not
\* None and c is greater than it.
C2_InfeasibleChangesNothing ==
    (/\ last.op = "connect"
     /\ last.apply
     /\ \/ ~pre_mask[last.gid]
        \/ /\ ~AvailableCapacityRaises(last.gid)
           /\ ~IsNone(available_capacity(pre_cap, last.gid, last.line_limited))
           /\ RatLt(available_capacity(pre_cap, last.gid, last.line_limited), last.capacity))
    => (last.ret = "False" /\ avail_cap = pre_cap /\ available_mask = pre_mask)

\* a TransLine left with capacity 5 has rejected a request of 6 and still has 5
C2_Witness ==
    /\ last.op = "connect" /\ last.apply /\ last.ret = "False"
    /\ FeatureType(last.gid) = "TransLine"
    /\ pre_mask[last.gid]
    /\ napplied = 2
    /\ pre_cap[last.gid] = Rat(5)
    /\ last.capacity = Rat(6)
    /\ avail_cap[last.gid] = Rat(5)

\* C3: a feasible connect(gid, c, apply=True) on a TransLine or LoadCen leaves
\* its stored capacity at the pre-call value minus exactly c.
C3_SimpleFeatureLosesExactlyC ==
    (Reserved /\ last.gid \in Stored)
    => avail_cap[last.gid] = RatSub(pre_cap[last.gid], last.capacity)

\* a load center of capacity 5 has given all of it to one request
C3_Witness ==
    /\ Reserved
    /\ FeatureType(last.gid) = "LoadCen"
    /\ last.capacity = Rat(5)
    /\ pre_cap[last.gid] = Rat(5)
    /\ avail_cap[last.gid] = Zero

\* what the last call took from a feature
Taken(gid) == RatSub(pre_cap[gid], avail_cap[gid])

RECURSIVE TakenFromLines(_, _)
TakenFromLines(line_gids, i) ==
    IF i > Len(line_gids) THEN Zero
    ELSE RatAdd(Taken(line_gids[i]), TakenFromLines(line_gids, i + 1))

\* C4: a feasible connect(gid, c, apply=True) on a Substation without
\* line_limited takes c in total from its member lines, and from no line more
\* than the line had before the call.
C4_SpreadConservesCapacity ==
    (Reserved /\ last.gid \in Substations /\ ~last.line_limited)
    => LET line_gids == FeatureLines(last.gid)
       IN  /\ TakenFromLines(line_gids, 1) = last.capacity
           /\ \A i \in 1 .. Len(line_gids) :
                  ~RatLt(pre_cap[line_gids[i]], Taken(line_gids[i]))

\* a spread that filled one line completely and took part of another
C4_Witness ==
    /\ Reserved /\ last.gid \in Substations /\ ~last.line_limited
    /\ last.capacity # Zero
    /\ LET line_gids == FeatureLines(last.gid)
       IN  /\ \E i \in 1 .. Len(line_gids) :
                  pre_cap[line_gids[i]] # Zero /\ avail_cap[line_gids[i]] = Zero
           /\ \E i \in 1 .. Len(line_gids) :
                  /\ avail_cap[line_gids[i]] # Zero
                  /\ avail_cap[line_gids[i]] # pre_cap[line_gids[i]]

\* the gids available_capacity answers for
WithCapacity == {gid \in Gids : ~AvailableCapacityRaises(gid)}

\* C5: in every state, check_availability(gid) is false if and only if
\* available_capacity(gid) is exactly zero (for a Substation, its derived
\* capacity).
C5_FlagFalseIffZero ==
    \A gid \in WithCapacity :
        (check_availability(available_mask, gid) = FALSE)
            <=> (available_capacity(avail_cap, gid, FALSE) = Zero)

\* C6: once check_availability(gid) is false it stays false: no step sets a
\* flag of the mask back to true.
C6_FlagNeverReverts ==
    [][\A gid \in Gids : ~available_mask[gid] => ~available_mask'[gid]]_vars

\* a reservation was made while another feature was already unavailable
C6_Witness ==
    /\ Reserved
    /\ \E gid \in Gids : gid # last.gid /\ ~pre_mask[gid] /\ ~available_mask[gid]
    /\ ~available_mask[last.gid]

\* C7 as stated: whatever the requested capacity, no stored capacity is greater
\* than in the preceding state.
C7_NeverIncremented ==
    \A gid \in Stored : ~RatLt(pre_cap[gid], avail_cap[gid])

\* C7, amended: a connect call with a non-negative requested capacity leaves no
\* stored capacity greater than it found it.
C7_NonNegativeRequestNeverIncrements ==
    (last.op = "connect" /\ ~RatLt(last.capacity, Zero))
    => \A gid \in Stored : ~RatLt(pre_cap[gid], avail_cap[gid])

\* a reservation of 5 has lowered a stored capacity
C7_Witness ==
    /\ Reserved
    /\ last.capacity = Rat(5)
    /\ \E gid \in Stored : RatLt(avail_cap[gid], pre_cap[gid])

\* the member gids of a substation that are TransLines
MemberLines(gid) ==
    {FeatureLines(gid)[i] : i \in 1 .. Len(FeatureLines(gid))}
        \cap {g \in Gids : FeatureType(g) = "TransLine"}

RECURSIVE SumCaps(_, _)
SumCaps(cap, gids) ==
    IF gids = {} THEN Zero
    ELSE LET g == CHOOSE x \in gids : TRUE
         IN  RatAdd(cap[g], SumCaps(cap, gids \ {g}))

\* the largest capacity among gids
MaxCap(cap, gids) ==
    CHOOSE m \in {cap[g] : g \in gids} : \A g \in gids : ~RatLt(m, cap[g])

RatMin(a, b) == IF RatLt(b, a) THEN b ELSE a

\* C8: a Substation's available capacity is half the sum of its member
\* TransLines' capacities, and with line_limited the minimum of that and the
\* largest member TransLine capacity; any other feature's is its stored field.
C8_AvailableCapacityFormula ==
    /\ \A gid \in Substations :
           LET half == RatDivInt(SumCaps(avail_cap, MemberLines(gid)), 2)
           IN  /\ available_capacity(avail_cap, gid, FALSE) = half
               /\ available_capacity(avail_cap, gid, TRUE)
                      = RatMin(half, MaxCap(avail_cap, MemberLines(gid)))
    /\ \A gid \in WithCapacity \ Substations : \A line_limited \in BOOLEAN :
           available_capacity(avail_cap, gid, line_limited) = avail_cap[gid]

\* after a reservation, a substation whose largest line is below half the sum
C8_Witness ==
    /\ Reserved
    /\ \E gid \in Substations :
           /\ available_capacity(avail_cap, gid, TRUE)
                  # available_capacity(avail_cap, gid, FALSE)
           /\ available_capacity(avail_cap, gid, FALSE)[2] = 2

\* C9: cost(gid, distance, multiplier) without capacity is
\* distance * line_cost * multiplier + tie_in, tie_in chosen by the feature's
\* kind and 0 for a kind that is not recognized; with the default costs a
\* TransLine at distance 10 and multiplier 1 costs 50670.
C9_CostFormula ==
    (last.op = "cost" /\ IsNone(last.capacity))
    => LET kind == FeatureType(last.gid)
           tie_in == IF kind = "TransLine" THEN cfg.line_tie_in_cost
                     ELSE IF kind = "Substation" THEN cfg.station_tie_in_cost
                     ELSE IF kind = "LoadCen" THEN cfg.center_tie_in_cost
                     ELSE IF kind = "PCALoadCen" THEN cfg.sink_tie_in_cost
                     ELSE 0
       IN  /\ last.ret = "value"
           /\ last.cost = last.distance * cfg.line_cost * last.multiplier + tie_in
           /\ (cfg = DefaultCfg /\ kind = "TransLine"
                   /\ last.distance = 10 /\ last.multiplier = 1)
                  => last.cost = 50670

\* the cost of a feature of an unrecognized kind was asked for, tie-in costs all set
C9_Witness ==
    /\ last.op = "cost" /\ IsNone(last.capacity)
    /\ FeatureType(last.gid) = "Other"
    /\ cfg = CustomCfg
    /\ last.multiplier = 2
    /\ last.cost = 2000

\* C10: cost(gid, d, capacity=c) returns None exactly when
\* connect(gid, c, apply=False) returns False in the same state, and the value
\* of cost(gid, d) without capacity when that connect returns True.
C10_CostNoneIffInfeasible ==
    (last.op = "cost" /\ ~IsNone(last.capacity))
    => LET connected == connect(pre_cap, pre_mask, last.gid, last.capacity, FALSE,
                                last.line_limited).ret
       IN  /\ (last.ret = "None") <=> (connected = "False")
           /\ connected = "True"
                  => /\ last.ret = "value"
                     /\ last.cost = _calc_cost(last.distance, cfg.line_cost,
                                               TieInCost(cfg, FeatureType(last.gid)),
                                               last.multiplier)

\* a feature that is available but has less than the 6 asked for was priced None
C10_Witness ==
    /\ last.op = "cost"
    /\ last.capacity = Rat(6)
    /\ last.ret = "None"
    /\ pre_mask[last.gid]
    /\ last.gid \in Stored
    /\ RatLt(Zero, avail_cap[last.gid])

\* C11: cost(gid, d, multiplier) without capacity changes no state, and its
\* result is the one any other catalog gives for a feature of the same kind,
\* whatever the capacities and flags there, also after reservations.
C11_CostWithoutCapacityIsPure ==
    (last.op = "cost" /\ IsNone(last.capacity))
    => /\ avail_cap = pre_cap
       /\ available_mask = pre_mask
       /\ \A cat \in InitCatalogs, flag \in BOOLEAN, gid \in Gids :
              FeatureType(gid) = FeatureType(last.gid)
              => LET other == cost(FeaturesFromTable(cat), [g \in Catalog |-> flag], cfg,
                                   gid, last.distance, last.multiplier, None, FALSE)
                 IN  other.ret = last.ret /\ other.cost = last.cost

\* after two reservations, a feature whose flag is false was priced without capacity
C11_Witness ==
    /\ last.op = "cost" /\ IsNone(last.capacity)
    /\ napplied = 2
    /\ ~available_mask[last.gid]
    /\ last.ret = "value"
    /\ last.cost > 0

\* the last call only asked: connect(apply=False), cost with a capacity, or a
\* feature_costs batch
FeasibilityOnly ==
    \/ last.op = "connect" /\ ~last.apply
    \/ last.op = "cost" /\ ~IsNone(last.capacity)
    \/ last.op = "feature_costs"

\* C12: connect(gid, c, apply=False), cost(gid, d, capacity=c) and a whole
\* feature_costs batch leave every capacity field and every flag as they found
\* them, whatever the gid, the capacity, the substation mode and the outcome.
C12_FeasibilityCallsChangeNothing ==
    FeasibilityOnly => (avail_cap = pre_cap /\ available_mask = pre_mask)

\* a batch with a capacity priced some rows and found others infeasible
C12_Witness ==
    /\ last.op = "feature_costs"
    /\ last.capacity = Rat(5)
    /\ last.ret = "value"
    /\ Len(last.costs) = 6
    /\ \E i \in 1 .. Len(last.costs) : IsNone(last.costs[i])
    /\ \E i \in 1 .. Len(last.costs) : ~IsNone(last.costs[i])
    /\ avail_cap[2] = Rat(3)

\* the last call was connect(substation, 10, apply=True) without line_limited on
\* an available substation whose two member TransLines had capacity 10 and 3
C13_Example ==
    /\ last.op = "connect" /\ last.apply /\ ~last.line_limited
    /\ last.capacity = Rat(10)
    /\ FeatureType(last.gid) = "Substation"
    /\ pre_mask[last.gid]
    /\ Len(FeatureLines(last.gid)) = 2
    /\ \A i \in 1 .. 2 : FeatureType(FeatureLines(last.gid)[i]) = "TransLine"
    /\ pre_cap[FeatureLines(last.gid)[1]] = Rat(10)
    /\ pre_cap[FeatureLines(last.gid)[2]] = Rat(3)

\* C13 as stated: the call fills line B (3) and takes the remaining 7 from line
\* A, ending with A at capacity 3 and B at capacity 0.
C13_ExampleReserves7And3 ==
    C13_Example
    => /\ avail_cap[FeatureLines(last.gid)[1]] = Rat(3)
       /\ avail_cap[FeatureLines(last.gid)[2]] = Zero

\* C13, amended: the substation's available capacity is half of 10 + 3, 6.5,
\* so the call for 10 returns False and reserves nothing: A stays at 10, B at 3.
C13_ExampleIsInfeasible ==
    C13_Example
    => /\ available_capacity(pre_cap, last.gid, FALSE) = RatNorm(13, 2)
       /\ last.ret = "False"
       /\ avail_cap = pre_cap
       /\ available_mask = pre_mask

\* the call of the example was made and line A still has 10, line B still has 3
C13_Witness ==
    /\ C13_Example
    /\ avail_cap[FeatureLines(last.gid)[1]] = Rat(10)
    /\ avail_cap[FeatureLines(last.gid)[2]] = Rat(3)

\* the member gids of a substation, as a set
Members(gid) == {FeatureLines(gid)[i] : i \in 1 .. Len(FeatureLines(gid))}

\* C14: a feasible connect(gid, c, apply=True, line_limited=True) on a
\* Substation takes exactly c from one member line that had the greatest
\* capacity among the member lines, and leaves every other member line as it was.
C14_LineLimitedTakesFromGreatest ==
    (Reserved /\ last.gid \in Substations /\ last.line_limited)
    => \E line \in Members(last.gid) :
           /\ pre_cap[line] = MaxCap(pre_cap, Members(last.gid))
           /\ avail_cap[line] = RatSub(pre_cap[line], last.capacity)
           /\ \A other \in Members(last.gid) \ {line} : avail_cap[other] = pre_cap[other]

\* a line-limited reservation of 5 went to a line that had more than another
\* line with capacity, and that other line was not touched
C14_Witness ==
    /\ Reserved /\ last.gid \in Substations /\ last.line_limited
    /\ last.capacity = Rat(5)
    /\ \E line, other \in Members(last.gid) :
           /\ RatLt(pre_cap[other], pre_cap[line])
           /\ RatLt(Zero, pre_cap[other])
           /\ avail_cap[line] = RatSub(pre_cap[line], Rat(5))
           /\ avail_cap[other] = pre_cap[other]

Sinks == {gid \in Gids : FeatureType(gid) = "PCALoadCen"}

\* C15: connect(gid, c, apply=True) on a PCALoadCen returns True for every c in
\* every reachable state and changes no capacity field, and the flag of a
\* PCALoadCen is never false.
C15_SinkAlwaysConnects ==
    /\ \A gid \in Sinks : available_mask[gid]
    /\ (last.op = "connect" /\ last.apply /\ last.gid \in Sinks)
       => (last.ret = "True" /\ avail_cap = pre_cap /\ available_mask = pre_mask)

\* a sink took a reservation of 10, the second reservation made on the catalog
C15_Witness ==
    /\ Reserved
    /\ last.gid \in Sinks
    /\ last.capacity = Rat(10)
    /\ napplied = 2
    /\ IsNone(avail_cap[last.gid])
    /\ available_mask[last.gid]

\* C16: available_capacity, check_availability, connect and cost called with a
\* gid that is not in the catalog each end in the invalid-key error, and leave
\* every capacity field and every flag as they were.
C16_UnknownGidIsInvalidKey ==
    (/\ last.op \in {"available_capacity", "check_availability", "connect", "cost"}
     /\ last.gid \notin Catalog)
    => (last.ret = "KeyError" /\ avail_cap = pre_cap /\ available_mask = pre_mask)

\* C17: connect(gid, c, apply=True) on a Substation changes the capacity only
\* of members of kind TransLine; a member of another kind keeps its capacity.
C17_OnlyMemberLinesChange ==
    (last.op = "connect" /\ last.apply /\ FeatureType(last.gid) = "Substation")
    => \A gid \in DOMAIN avail_cap :
           avail_cap[gid] # pre_cap[gid]
           => (gid \in Members(last.gid) /\ FeatureType(gid) = "TransLine")

\* the member gids of a substation that are no TransLine of the catalog
BadMembers(gid) ==
    {m \in Members(gid) : m \notin Catalog \/ FeatureType(m) # "TransLine"}

Exceptions == {"KeyError", "ValueError", "RuntimeError", "TypeError", "ZeroDivisionError"}

\* C18: for a Substation with a member gid that is absent from the catalog or of
\* another kind than TransLine, available_capacity(substation) and
\* connect(substation, c) raise nothing and count that member as zero: the
\* capacity is the one of the member TransLines alone, and a reservation takes
\* nothing from that member.
C18_BadMemberCountsZero ==
    (/\ last.op \in {"available_capacity", "connect"}
     /\ last.gid \in Catalog
     /\ FeatureType(last.gid) = "Substation"
     /\ BadMembers(last.gid) # {})
    => /\ last.ret \notin Exceptions
       /\ last.op = "available_capacity" /\ ~last.line_limited
              => last.avail = RatDivInt(SumCaps(avail_cap,
                                                Members(last.gid) \ BadMembers(last.gid)), 2)
       /\ last.op = "connect"
              => \A m \in BadMembers(last.gid) \cap DOMAIN avail_cap :
                     avail_cap[m] = pre_cap[m]

\* C19: on a catalog whose substations list distinct TransLines, no public call
\* with a non-negative capacity ends in the RuntimeError of _connect: no line
\* is asked for more than it has, in a fill pass or in the final equal share.
C19_NoRuntimeError ==
    last.ret # "RuntimeError"

\* a spread that took two fill passes: two lines of different capacity were
\* drained and a third gave the equal share that was left
C19_Witness ==
    /\ Reserved /\ last.gid \in Substations /\ ~last.line_limited
    /\ \E a, b, rest \in Members(last.gid) :
           /\ RatLt(Zero, pre_cap[a]) /\ RatLt(pre_cap[a], pre_cap[b])
           /\ avail_cap[a] = Zero /\ avail_cap[b] = Zero
           /\ RatLt(Zero, avail_cap[rest]) /\ RatLt(avail_cap[rest], pre_cap[rest])

\* the member lines of the substation of the last call that had capacity, in order
LinesWithCapacity ==
    Compress(FeatureLines(last.gid),
             [i \in 1 .. Len(FeatureLines(last.gid)) |-> pre_cap[FeatureLines(last.gid)[i]] # Zero],
             1)

\* every line of lines gave min(capacity, s), and the lines of r, the outcome
\* of the fill passes, are those of lines with capacity at least s
FilledToLevel(r, lines, s) ==
    /\ \A line \in lines : Taken(line) = RatMin(pre_cap[line], s)
    /\ {r.line_gids[i] : i \in 1 .. Len(r.line_gids)}
           = {line \in lines : ~RatLt(pre_cap[line], s)}

\* r is what the fill passes ended with; the level is the equal share after them
FilledToShare(r, lines) ==
    /\ Len(r.line_gids) > 0
    /\ FilledToLevel(r, lines, RatDivInt(r.capacity, Len(r.line_gids)))

\* C20: a feasible connect on a Substation without line_limited is a
\* water-filling: with s the equal share after the last fill pass, every member
\* line that had capacity gave min(capacity, s), and the lines taken out by the
\* fill passes are those with capacity strictly below s, so that a line with
\* capacity equal to the share stays in play.
C20_WaterFilling ==
    (Reserved /\ last.gid \in Substations /\ ~last.line_limited)
    => FilledToShare(
           SpreadLines([cap |-> pre_cap, mask |-> pre_mask, err |-> "ok"],
                       LinesWithCapacity,
                       [i \in 1 .. Len(LinesWithCapacity) |-> pre_cap[LinesWithCapacity[i]]],
                       last.capacity),
           {LinesWithCapacity[i] : i \in 1 .. Len(LinesWithCapacity)})

\* a line had exactly the equal share: it gave all it had, as much as a line
\* that still has capacity
C20_Witness ==
    /\ Reserved /\ last.gid \in Substations /\ ~last.line_limited
    /\ \E line, other \in Members(last.gid) :
           /\ RatLt(Zero, pre_cap[line])
           /\ avail_cap[line] = Zero
           /\ Taken(other) = Taken(line)
           /\ RatLt(Zero, avail_cap[other])

\* the fill passes the spreading of the last call makes from the state it found
LastSpread ==
    SpreadLines([cap |-> pre_cap, mask |-> pre_mask, err |-> "ok"],
                LinesWithCapacity,
                [i \in 1 .. Len(LinesWithCapacity) |-> pre_cap[LinesWithCapacity[i]]],
                last.capacity)

\* the last call was a connect(apply=True) on a substation without line_limited
\* that passed the feasibility check and went into the spreading
Spreading ==
    /\ last.op = "connect" /\ last.apply /\ ~last.line_limited
    /\ last.gid \in Substations
    /\ last.ret \in {"True", "ZeroDivisionError", "RuntimeError"}

\* passes are at most n, and each pass but the last has fewer lines after it
PassesShrink(passes, n) ==
    /\ Len(passes) <= n
    /\ \A i \in 1 .. (Len(passes) - 1) : passes[i + 1] < passes[i]

\* C21: the spreading of a substation connect over n member lines ends after at
\* most n fill passes, and every pass that is not the last takes at least one
\* line out of play.
C21_AtMostNFillPasses ==
    Spreading => PassesShrink(LastSpread.passes, Len(FeatureLines(last.gid)))

\* a spreading over three lines that needed three fill passes
C21_Witness ==
    /\ Spreading /\ last.ret = "True"
    /\ Len(FeatureLines(last.gid)) = 3
    /\ Len(LastSpread.passes) = 3

\* C24: in a connect(apply=True) on a Substation without line_limited that
\* passed the feasibility check, the lines in play are never none where a share
\* is computed as capacity / number of lines: not in a fill pass, not in the
\* final equal share, also for a request of 0 and for member lines that all
\* have capacity 0.
C24_ShareNeverOverNoLine ==
    Spreading
    => /\ \A i \in 1 .. Len(LastSpread.passes) : LastSpread.passes[i] > 0
       /\ Len(LastSpread.line_gids) > 0
       /\ last.ret # "ZeroDivisionError"

\* C25: in every state reached by connect calls with non-negative capacities, a
\* feature whose flag is false has an available capacity of exactly 0.
C25_FlagFalseImpliesZero ==
    \A gid \in WithCapacity :
        ~check_availability(available_mask, gid)
        => /\ available_capacity(avail_cap, gid, FALSE) = Zero
           /\ available_capacity(avail_cap, gid, TRUE) = Zero

\* two drained features are flagged unavailable while a line that has capacity
\* is still available
C25_Witness ==
    /\ Reserved
    /\ last.gid \in Stored
    /\ RatLt(Zero, pre_cap[last.gid])
    /\ ~available_mask[last.gid]
    /\ \E gid \in Stored \ {last.gid} : ~available_mask[gid] /\ ~pre_mask[gid]
    /\ \E gid \in Stored :
           FeatureType(gid) = "TransLine" /\ available_mask[gid] /\ RatLt(Zero, avail_cap[gid])

\* C26: a feasible connect(gid, c, apply=True) on a Substation whose members
\* are all TransLines lowers the substation's own available capacity (without
\* line_limited) by exactly c / 2: the member sum drops by c.
C26_SubstationLosesHalfOfC ==
    (Reserved /\ last.gid \in Substations)
    => /\ available_capacity(avail_cap, last.gid, FALSE)
              = RatSub(available_capacity(pre_cap, last.gid, FALSE),
                       RatDivInt(last.capacity, 2))
       /\ SumCaps(avail_cap, Members(last.gid))
              = RatSub(SumCaps(pre_cap, Members(last.gid)), last.capacity)

\* a substation with capacity 8 gave 5 and has 5.5 left
C26_Witness ==
    /\ Reserved /\ last.gid \in Substations
    /\ last.capacity = Rat(5)
    /\ available_capacity(pre_cap, last.gid, FALSE) = Rat(8)
    /\ available_capacity(avail_cap, last.gid, FALSE) = RatNorm(11, 2)

\* C27: a connect call on feature g changes the flag of no feature but g: a
\* connect on a Substation leaves the flags of its member lines as they were,
\* a connect on a TransLine those of the Substations that list it.
C27_OnlyOwnFlagChanges ==
    last.op = "connect"
    => \A gid \in Catalog \ {last.gid} : available_mask[gid] = pre_mask[gid]

\* a connect on a substation drained two of its lines and their flags are still
\* true; the substation's own flag is true as well, it has capacity left
C27_Witness ==
    /\ Reserved /\ last.gid \in Substations
    /\ \E a, b \in Members(last.gid) :
           /\ a # b
           /\ RatLt(Zero, pre_cap[a]) /\ avail_cap[a] = Zero /\ available_mask[a]
           /\ RatLt(Zero, pre_cap[b]) /\ avail_cap[b] = Zero /\ available_mask[b]
    /\ available_mask[last.gid]

\* the call of thread t was connect(substation, c, apply=False), it returned
\* True, and c was above the substation's capacity in the state it returned in
StaleTrue(t) ==
    /\ calls[t].pc = "done"
    /\ ~calls[t].apply
    /\ FeatureType(calls[t].gid) = "Substation"
    /\ calls[t].ret = "True"
    /\ RatLt(calls[t].at_return, calls[t].capacity)

\* C22: without a lock, connect(substation, c, apply=False) can return True
\* although c is above the substation's capacity in the state it returns in,
\* and only when a reservation of another call fell between its reading of the
\* capacity and its return; calls that run one after the other never do.
C22_StaleOnlyWhenInterleaved ==
    \A t \in Threads : StaleTrue(t) => calls[t].stale

\* a check for 5 on the substation returned True after a reservation on one of
\* its lines had brought its capacity below 5
C22_Witness ==
    \E t, u \in Threads :
        /\ StaleTrue(t)
        /\ calls[t].capacity = Rat(5)
        /\ calls[u].apply
        /\ calls[u].gid \in Members(calls[t].gid)
        /\ calls[u].ret = "True"

\* both threads called connect(gid, c, apply=True) on one TransLine, read the
\* same capacity, passed the comparison, and ask for more than it together
BothPassed(t, u) ==
    /\ t # u
    /\ calls[t].pc = "done" /\ calls[u].pc = "done"
    /\ calls[t].apply /\ calls[u].apply
    /\ calls[t].gid = calls[u].gid
    /\ FeatureType(calls[t].gid) = "TransLine"
    /\ calls[t].ret \in {"True", "RuntimeError"}
    /\ calls[u].ret \in {"True", "RuntimeError"}
    /\ calls[t].avail = calls[u].avail
    /\ RatLt(calls[t].avail, RatAdd(calls[t].capacity, calls[u].capacity))

\* C23: when connect(apply=True) calls are interleaved between the steps of
\* connect (availability check, reading and comparing the capacity, the
\* reservation of _connect), no stored capacity becomes negative; two calls on
\* one TransLine that both passed the comparison against the same capacity and
\* ask for more than it together end with one reservation made and the later
\* one raising RuntimeError, having subtracted nothing.
C23_InterleavedNeverNegative ==
    /\ \A gid \in Stored : ~RatLt(avail_cap[gid], Zero)
    /\ \A t, u \in Threads :
           BothPassed(t, u)
           => \/ /\ calls[t].ret = "True" /\ calls[u].ret = "RuntimeError"
                 /\ avail_cap[calls[t].gid] = RatSub(calls[t].avail, calls[t].capacity)
              \/ /\ calls[u].ret = "True" /\ calls[t].ret = "RuntimeError"
                 /\ avail_cap[calls[t].gid] = RatSub(calls[u].avail, calls[u].capacity)

\* two calls for 6 on a line of 10: one has reserved, the other has raised
C23_Witness ==
    \E t, u \in Threads :
        /\ BothPassed(t, u)
        /\ calls[t].capacity = Rat(6) /\ calls[u].capacity = Rat(6)
        /\ calls[t].avail = Rat(10)
        /\ calls[u].ret = "RuntimeError"
        /\ avail_cap[calls[t].gid] = Rat(4)

====
